---- MODULE Spec2Model ----
(***************************************************************************)
(* Lifecycle of a boleta de honorarios (models/boleta_honorarios.py):      *)
(* issuance (action_emitir_boleta), the two void operations                *)
(* (action_anular_boleta, action_anular_boleta_path), the PDF placeholders *)
(* and the helpers they call.  A lifecycle operation is one action: the    *)
(* whole handler, the loop over the recordset included.  The answers of    *)
(* the remote API are the inputs of the actions.  The fields no operation  *)
(* reads (response_data, fecha_procesamiento, the payload of the issue     *)
(* request) are left out.  The constraint on the RUT fields                *)
(* (_validate_rut) and the masking of the API key (_mask_key) are also     *)
(* explored on their own, on inputs of their own, by UtilSpec.             *)
(*                                                                         *)
(* Python strings are TLA+ strings; Python values that may be of several   *)
(* types (JSON values, Odoo fields that read False when unset) are records *)
(* [t, s, n] built by PyStr, PyInt, PyBool, PyNone.                        *)
(***************************************************************************)
EXTENDS Integers, Sequences, FiniteSets, TLC

VARIABLES
    docs,     \* the boleta.honorarios records: id -> field values
    last,     \* the last lifecycle invocation: operation, recordset, API answers, records before, exception
    http,     \* the HTTP requests sent by the last invocation, in order
    chatter,  \* the message_post calls of the last invocation, in order
    log,      \* the lines the last invocation wrote with _logger, in order
    trail     \* per record: the state it was created in, and whether it has been emitted

vars == <<docs, last, http, chatter, log, trail>>

----------------------------------------------------------------------------
(* Bounds of the model *)

\* issue is not invoked on a record whose intentos has reached this cap
MaxIntentos == 2

\* number of records of the recordsets explored by BatchSpec
NDocs == 2

----------------------------------------------------------------------------
(* Python strings *)

CharAt(s, i) == SubSeq(s, i, i)

UpperChars == <<"A","B","C","D","E","F","G","H","I","J","K","L","M",
                "N","O","P","Q","R","S","T","U","V","W","X","Y","Z">>
LowerChars == <<"a","b","c","d","e","f","g","h","i","j","k","l","m",
                "n","o","p","q","r","s","t","u","v","w","x","y","z">>

LowerChar(c) ==
    IF \E i \in 1..26 : UpperChars[i] = c
    THEN LowerChars[CHOOSE i \in 1..26 : UpperChars[i] = c]
    ELSE c

\* str.lower()
RECURSIVE Lower(_)
Lower(s) == IF Len(s) = 0 THEN ""
            ELSE LowerChar(CharAt(s, 1)) \o Lower(SubSeq(s, 2, Len(s)))

\* sub in s
Contains(s, sub) ==
    \E i \in 1..(Len(s) - Len(sub) + 1) : SubSeq(s, i, i + Len(sub) - 1) = sub

IsSpace(c) == c \in {" ", "\t", "\n", "\r"}

\* str.strip()
RECURSIVE LStrip(_)
LStrip(s) == IF Len(s) > 0 /\ IsSpace(CharAt(s, 1))
             THEN LStrip(SubSeq(s, 2, Len(s))) ELSE s
RECURSIVE RStrip(_)
RStrip(s) == IF Len(s) > 0 /\ IsSpace(CharAt(s, Len(s)))
             THEN RStrip(SubSeq(s, 1, Len(s) - 1)) ELSE s
Strip(s) == RStrip(LStrip(s))

\* s[:n]
Prefix(s, n) == IF Len(s) <= n THEN s ELSE SubSeq(s, 1, n)

Digits == <<"0","1","2","3","4","5","6","7","8","9">>

\* str(n) of an int
RECURSIVE IntToStr(_)
IntToStr(n) == IF n < 0 THEN "-" \o IntToStr(0 - n)
               ELSE IF n < 10 THEN Digits[n + 1]
               ELSE IntToStr(n \div 10) \o Digits[(n % 10) + 1]

----------------------------------------------------------------------------
(* Python values *)

PyNone    == [t |-> "none", s |-> "", n |-> 0]
PyStr(s)  == [t |-> "str",  s |-> s,  n |-> 0]
PyInt(n)  == [t |-> "int",  s |-> "", n |-> n]
PyBool(b) == [t |-> "bool", s |-> "", n |-> IF b THEN 1 ELSE 0]
PyFalse   == PyBool(FALSE)
PyTrue    == PyBool(TRUE)
\* a JSON array or nested object: truthy, never a dict for the caller's tests
PyObj(s)  == [t |-> "obj",  s |-> s,  n |-> 1]

\* bool(v)
Truthy(v) == CASE v.t = "none" -> FALSE
               [] v.t = "str"  -> v.s # ""
               [] v.t = "int"  -> v.n # 0
               [] v.t = "bool" -> v.n = 1
               [] OTHER        -> TRUE

\* str(v)
Str(v) == CASE v.t = "none" -> "None"
            [] v.t = "str"  -> v.s
            [] v.t = "int"  -> IntToStr(v.n)
            [] v.t = "bool" -> IF v.n = 1 THEN "True" ELSE "False"
            [] OTHER        -> v.s

\* a or b
Or(a, b) == IF Truthy(a) THEN a ELSE b

----------------------------------------------------------------------------
(* JSON objects: the keys the program reads; a key that is not in the      *)
(* object maps to Absent                                                   *)

Keys == {"success", "folio", "numeroDocumento", "numero_boleta", "numeroBoleta",
         "numero", "error", "mensaje", "message", "descripcion", "detalle",
         "anio", "anioFolio", "year", "anio_emision", "anioFolioEmitido"}

Absent == [t |-> "absent", s |-> "", n |-> 0]

EmptyObj == [k \in Keys |-> Absent]

\* the object r as a JSON object (r is a TLA+ record of the members)
Obj(r) == [k \in Keys |-> IF k \in DOMAIN r THEN r[k] ELSE Absent]

\* dict.get(k) and dict.get(k, default)
Get(o, k) == IF o[k] = Absent THEN PyNone ELSE o[k]
GetDefault(o, k, default) == IF o[k] = Absent THEN default ELSE o[k]

----------------------------------------------------------------------------
(* The records *)

States == {"draft", "processing", "emitted", "downloaded", "error", "cancelled"}

\* the selection values of motivo_anulacion; "" is the unset field
Motivos == {"1", "2", "3"}

\* a record as created: state defaults to draft, intentos to 0, and the
\* fields without a default read False ("" for the Char fields)
NewDoc(desc, valor, email, motivo) ==
    [state                |-> "draft",
     numero_boleta        |-> "",
     error_message        |-> PyFalse,
     intentos             |-> 0,
     descripcion_servicio |-> desc,
     valor_bruto          |-> valor,
     email_destinatario   |-> email,
     motivo_anulacion     |-> motivo,
     fecha_emision_year   |-> 2026,
     rut_usuario          |-> "11.111.111-1",
     receptor_rut         |-> "22.222.222-2",
     password_sii         |-> "Clave-SII-77"]

----------------------------------------------------------------------------
(* HTTP: what requests.post gives back.  transport = "fail" is an exception *)
(* of requests (timeout, connection error) with message cause; otherwise    *)
(* status is resp.status_code, text is resp.text, and json tells what       *)
(* resp.json() does: "object" returns the dict obj, "array" returns a list, *)
(* "invalid" raises.                                                        *)

Reply(status, json, obj, text) ==
    [transport |-> "ok", status |-> status, json |-> json, obj |-> obj,
     text |-> text, cause |-> ""]

JsonReply(status, r) == Reply(status, "object", Obj(r), "{json}")
ArrayReply(status)   == Reply(status, "array", EmptyObj, "[]")
TextReply(status, text) == Reply(status, "invalid", EmptyObj, text)

TransportFailure(cause) ==
    [transport |-> "fail", status |-> 0, json |-> "invalid", obj |-> EmptyObj,
     text |-> "", cause |-> cause]

\* the answer that is never read (the request was not sent)
NoReply == TransportFailure("not sent")

\* the result of a call: a value, or an exception with its message
Return(v)   == [raised |-> FALSE, msg |-> "", value |-> v]
Raise(msg)  == [raised |-> TRUE, msg |-> msg, value |-> PyNone]

\* the effects of a piece of code besides the fields: requests, posts and
\* log lines
NoFx == [http |-> <<>>, posts |-> <<>>, log |-> <<>>]
Fx(h, p) == [http |-> h, posts |-> p, log |-> <<>>]
Then(f, g) == [http |-> f.http \o g.http, posts |-> f.posts \o g.posts,
               log |-> f.log \o g.log]

Request(ep, id, folio, arg) == [ep |-> ep, doc |-> id, folio |-> folio, arg |-> arg]
Post(id, body, type) == [doc |-> id, body |-> body, type |-> type]

\* message_post(body=...) without message_type posts a notification
MessagePost(id, body, type) == Fx(<<>>, <<Post(id, body, type)>>)

\* _logger.info / error / warning / exception: one line of the log
Log(line) == [http |-> <<>>, posts |-> <<>>, log |-> <<line>>]

----------------------------------------------------------------------------
(* _mask_key(key, show_start=6, show_end=4); every call leaves the defaults. *)
(* The body is in a try whose handler returns six asterisks; str(), len()    *)
(* and the slices raise on no string, so the handler is never entered.       *)

ShowStart == 6
ShowEnd == 4

\* '*' * n
RECURSIVE Stars(_)
Stars(n) == IF n <= 0 THEN "" ELSE "*" \o Stars(n - 1)

\* s[-n:], n > 0
Suffix(s, n) == IF Len(s) <= n THEN s ELSE SubSeq(s, Len(s) - n + 1, Len(s))

\* the mask that hides as many characters as the key has in the middle
MaskKeepsLength(ks) ==
    IF Len(ks) <= ShowStart + ShowEnd
    THEN Stars(Len(ks))
    ELSE Prefix(ks, ShowStart) \o Stars(Len(ks) - ShowStart - ShowEnd) \o Suffix(ks, ShowEnd)

\* the mask of the string ks
Mask(ks) ==
    IF Len(ks) <= ShowStart + ShowEnd
    THEN Stars(Len(ks))
    ELSE Prefix(ks, ShowStart) \o Stars(6) \o Suffix(ks, ShowEnd)

mask_key(key) == IF ~Truthy(key) THEN "" ELSE Mask(Str(key))

----------------------------------------------------------------------------
(* get_simpleapi_config: the three parameters of ir.config_parameter and    *)
(* one line of log.  api_key is what get_param gives for the key; the base  *)
(* URL and the timeout are unset, so that get_param gives their defaults.   *)

DefaultApiKey == "4648-N330-6392-2590-9354"
DefaultBaseUrl == "https://servicios.simpleapi.cl/api"

ConfigLog(api_key, base_url, timeout) ==
    Log("[BHE] Config SimpleAPI base_url=" \o base_url \o " api_key="
            \o mask_key(PyStr(api_key)) \o " timeout=" \o IntToStr(timeout))

get_simpleapi_config(api_key) ==
    [api_key |-> api_key, base_url |-> DefaultBaseUrl, timeout |-> 30,
     fx |-> ConfigLog(api_key, DefaultBaseUrl, 30)]

\* the configuration the lifecycle operations get: the key is unset too
Config == get_simpleapi_config(DefaultApiKey)

\* str.replace(c, '') for a character c
RECURSIVE Remove(_, _)
Remove(s, c) == IF Len(s) = 0 THEN ""
                ELSE (IF CharAt(s, 1) = c THEN "" ELSE CharAt(s, 1))
                         \o Remove(SubSeq(s, 2, Len(s)), c)

\* rut.replace('.', '').replace('-', '')
PlainRut(rut) == Remove(Remove(rut, "."), "-")

----------------------------------------------------------------------------
(* _call_simpleapi: POST {base}/bhe/emitir *)

JsonDecodeError == "Expecting value: line 1 column 1 (char 0)"

\* the configuration is read, the request is announced in the log and sent
CallSent(id, config) ==
    Then(config.fx,
    Then(Log("[BHE] POST emitir -> " \o config.base_url \o "/bhe/emitir key="
                 \o mask_key(PyStr(config.api_key))),
         Fx(<<Request("emitir", id, "", "")>>, <<>>)))

\* the answer is written to the log, its body cut at 300 characters
CallAnswered(id, config, reply) ==
    Then(CallSent(id, config),
         Log("[BHE] emitir status=" \o IntToStr(reply.status)
                 \o " body=" \o Prefix(reply.text, 300)))

call_simpleapi(id, reply) ==
    IF reply.transport = "fail"
    THEN [res |-> Raise("Error inesperado llamando SimpleAPI: " \o reply.cause),
          fx |-> CallSent(id, Config)]
    ELSE [res |-> IF reply.status = 200
                  THEN IF reply.json = "invalid"
                       THEN Raise("Error inesperado llamando SimpleAPI: " \o JsonDecodeError)
                       ELSE Return(reply)
                  ELSE Raise("Error en API: " \o IntToStr(reply.status)
                                 \o " - " \o reply.text),
          fx |-> CallAnswered(id, Config, reply)]

----------------------------------------------------------------------------
(* _send_mail_via_simpleapi: POST {base}/bhe/mail/{folio}/{anio}.  An       *)
(* exception of requests.post is not caught here.                           *)

\* f"{payload}": the repr of the dict, the password as the record holds it
MailPayload(doc, email) ==
    "{'RutUsuario': '" \o PlainRut(doc.rut_usuario) \o "', 'PasswordSII': '"
        \o doc.password_sii \o "', 'Correo': '" \o email \o "'}"

\* the configuration is read, the request is announced in the log with its
\* payload, and sent
MailSent(id, doc, folio, anio, email, config) ==
    Then(config.fx,
    Then(Log("[BHE] POST mail " \o config.base_url \o "/bhe/mail/" \o folio \o "/"
                 \o IntToStr(anio) \o " key=" \o mask_key(PyStr(config.api_key))
                 \o " -> " \o MailPayload(doc, email)),
         Fx(<<Request("mail", id, folio, IntToStr(anio))>>, <<>>)))

\* the answer is written to the log (the Content-Type header is not modelled)
MailAnswered(sent, reply) ==
    Then(sent, Log("Mail status=" \o IntToStr(reply.status)
                       \o " ct={Content-Type} body=" \o Prefix(reply.text, 300)))

\* what follows the sending: the exception of requests.post leaves the function
MailResult(sent, id, folio, email, reply) ==
    IF reply.transport = "fail"
    THEN [res |-> Raise(reply.cause), fx |-> sent]
    ELSE IF reply.status \in {200, 202}
    THEN [res |-> Return(PyTrue),
          fx  |-> Then(MailAnswered(sent, reply), MessagePost(id,
                    "Correo solicitado a SimpleAPI (folio " \o folio \o "): " \o email,
                    "notification"))]
    ELSE [res |-> Return(PyFalse),
          fx  |-> Then(MailAnswered(sent, reply), MessagePost(id,
                    "No se pudo solicitar envio por correo (POST). Status "
                        \o IntToStr(reply.status) \o ". Body: " \o Prefix(reply.text, 300),
                    "comment"))]

send_mail_via_simpleapi(id, doc, folio, anio, email, reply) ==
    MailResult(MailSent(id, doc, folio, anio, email, Config),
               id, folio, email, reply)

----------------------------------------------------------------------------
(* _process_successful_response *)

IsDigit(c) == \E i \in 1..10 : Digits[i] = c
DigitValue(c) == (CHOOSE i \in 1..10 : Digits[i] = c) - 1

\* int(s) succeeds on a non-empty string of digits (blanks around it allowed)
IsIntLiteral(s) ==
    LET t == Strip(s) IN Len(t) > 0 /\ \A i \in 1..Len(t) : IsDigit(CharAt(t, i))

RECURSIVE DigitsToInt(_)
DigitsToInt(t) == IF Len(t) = 0 THEN 0
                  ELSE 10 * DigitsToInt(SubSeq(t, 1, Len(t) - 1)) + DigitValue(CharAt(t, Len(t)))
ParseInt(s) == DigitsToInt(Strip(s))

\* folio = response.get('folio') or ... or response.get('numero')
FolioKeys == <<"folio", "numeroDocumento", "numero_boleta", "numeroBoleta", "numero">>
\* the chain with numero tried before numero_boleta and numeroBoleta
ExtractFolioNumeroFirst(o) ==
    Or(Get(o, "folio"), Or(Get(o, "numeroDocumento"), Or(Get(o, "numero"),
       Or(Get(o, "numero_boleta"), Get(o, "numeroBoleta")))))

ExtractFolio(o) ==
    Or(Get(o, "folio"), Or(Get(o, "numeroDocumento"), Or(Get(o, "numero_boleta"),
       Or(Get(o, "numeroBoleta"), Get(o, "numero")))))

\* the loop over the year keys: the first truthy one that int() accepts; 0 when none
AnioKeys == <<"anio", "anioFolio", "year", "anio_emision", "anioFolioEmitido">>
RECURSIVE AnioFrom(_, _)
AnioFrom(o, i) ==
    IF i > Len(AnioKeys) THEN 0
    ELSE LET v == Get(o, AnioKeys[i])
         IN  IF Truthy(v) /\ IsIntLiteral(Prefix(Str(v), 4))
             THEN ParseInt(Prefix(Str(v), 4))
             ELSE AnioFrom(o, i + 1)
ExtractAnio(o, doc) ==
    LET a == AnioFrom(o, 1) IN IF a = 0 THEN doc.fecha_emision_year ELSE a

\* the else branch written as if the folio had been accepted
SinFolioAssigns(id, doc, folio) ==
    [doc |-> [doc EXCEPT !.numero_boleta = Str(folio), !.state = "error",
                         !.error_message =
                             PyStr("Respuesta exitosa pero sin numero de boleta")],
     fx  |-> MessagePost(id, "Respuesta exitosa sin folio. Response: {json}", "comment"),
     raised |-> FALSE, msg |-> ""]

\* else: the answer was classified successful and holds no folio
SinFolio(id, doc, folio) ==
    [doc |-> [doc EXCEPT !.state = "error",
                         !.error_message =
                             PyStr("Respuesta exitosa pero sin numero de boleta")],
     fx  |-> MessagePost(id, "Respuesta exitosa sin folio. Response: {json}", "comment"),
     raised |-> FALSE, msg |-> ""]

\* try: self._send_mail_via_simpleapi(...) except Exception
MailCaught(id, m) ==
    IF m.res.raised
    THEN Then(m.fx,
         Then(Log("Fallo envio de correo por SimpleAPI: " \o m.res.msg),
              MessagePost(id, "Error solicitando envio por correo: " \o m.res.msg,
                          "comment")))
    ELSE m.fx

\* the mail step, taken when there is a year and an address
MailStep(id, d2, anio, mail) ==
    IF anio # 0 /\ d2.email_destinatario # ""
    THEN MailCaught(id, send_mail_via_simpleapi(id, d2, d2.numero_boleta, anio,
                                                d2.email_destinatario, mail))
    ELSE NoFx

\* the branch that takes the emission back when the mail request fails
EmitidaUndoneByMail(id, d2, o, mail) ==
    [doc |-> IF mail.transport = "fail" \/ mail.status \notin {200, 202}
             THEN [d2 EXCEPT !.state = "error",
                             !.error_message = PyStr("No se pudo solicitar envio por correo")]
             ELSE d2,
     fx  |-> Then(MessagePost(id, "Boleta emitida exitosamente. Numero: "
                                      \o d2.numero_boleta, "notification"),
                  MailStep(id, d2, ExtractAnio(o, d2), mail)),
     raised |-> FALSE, msg |-> ""]

\* if folio: the three assignments, the post, the mail step
Emitida(id, d2, o, mail) ==
    [doc |-> d2,
     fx  |-> Then(MessagePost(id, "Boleta emitida exitosamente. Numero: "
                                      \o d2.numero_boleta, "notification"),
                  MailStep(id, d2, ExtractAnio(o, d2), mail)),
     raised |-> FALSE, msg |-> ""]

FolioFound(id, doc, o, mail, folio) ==
    IF Truthy(folio)
    THEN Emitida(id, [doc EXCEPT !.numero_boleta = Str(folio),
                                 !.state = "emitted",
                                 !.error_message = PyFalse], o, mail)
    ELSE SinFolio(id, doc, folio)

process_successful_response(id, doc, o, mail) ==
    FolioFound(id, doc, o, mail, ExtractFolio(o))

----------------------------------------------------------------------------
(* _process_error_response *)

ExtractError(o) ==
    Or(Get(o, "error"), Or(Get(o, "mensaje"), Or(Get(o, "message"),
       Or(Get(o, "descripcion"), Or(Get(o, "detalle"), PyStr("Error desconocido"))))))

ErrorFound(id, doc, error_msg) ==
    [doc |-> [doc EXCEPT !.state = "error", !.error_message = error_msg],
     fx  |-> MessagePost(id, "Error en emision: " \o Str(error_msg), "comment"),
     raised |-> FALSE, msg |-> ""]

process_error_response(id, doc, o) == ErrorFound(id, doc, ExtractError(o))

----------------------------------------------------------------------------
(* action_emitir_boleta, one record of the loop *)

\* the three checks with the amount looked at first
FailedPreconditionValorFirst(doc) ==
    IF doc.valor_bruto <= 0
    THEN "El valor bruto debe ser mayor a cero"
    ELSE IF doc.descripcion_servicio = ""
    THEN "Debe agregar una descripcion del servicio"
    ELSE IF doc.email_destinatario = "" \/ ~Contains(doc.email_destinatario, "@")
    THEN "Debe indicar un correo destinatario valido (ej: correo@dominio.cl)"
    ELSE ""

\* the three checks, in the order of the code: the message of the first
\* that fails, "" when all pass
FailedPrecondition(doc) ==
    IF doc.descripcion_servicio = ""
    THEN "Debe agregar una descripcion del servicio"
    ELSE IF doc.valor_bruto <= 0
    THEN "El valor bruto debe ser mayor a cero"
    ELSE IF doc.email_destinatario = "" \/ ~Contains(doc.email_destinatario, "@")
    THEN "Debe indicar un correo destinatario valido (ej: correo@dominio.cl)"
    ELSE ""

\* the classification that looks at every key the folio is read from
ClassifiedSuccessfulAnyFolioKey(o) ==
    Truthy(Or(Get(o, "success"), Or(Get(o, "numeroDocumento"),
           Or(Get(o, "numero"), Or(Get(o, "folio"),
           Or(Get(o, "numero_boleta"), Get(o, "numeroBoleta")))))))

\* response.get('success') or response.get('numeroDocumento') or
\* response.get('numero') or response.get('folio')
ClassifiedSuccessful(o) ==
    Truthy(Or(Get(o, "success"), Or(Get(o, "numeroDocumento"),
           Or(Get(o, "numero"), Get(o, "folio")))))

\* the start that counts the attempts of the records not yet emitted only
StartEmisionCountsUnissued(id, doc) ==
    [doc |-> [doc EXCEPT !.state = "processing",
                         !.intentos = IF doc.state = "emitted" THEN @ ELSE @ + 1],
     fx  |-> MessagePost(id, "Iniciando emision de boleta de honorarios...", "notification")]

\* record.state = 'processing'; record.intentos += 1; message_post(...)
StartEmision(id, doc) ==
    [doc |-> [doc EXCEPT !.state = "processing", !.intentos = @ + 1],
     fx  |-> MessagePost(id, "Iniciando emision de boleta de honorarios...", "notification")]

\* the handler that forgets to leave processing
EmitirExceptKeepsState(id, doc, msg) ==
    [doc |-> [doc EXCEPT !.error_message = PyStr(msg)],
     fx  |-> Then(Log("Error emitiendo boleta " \o IntToStr(id) \o ": " \o msg),
                  MessagePost(id, "Error emitiendo boleta: " \o msg, "comment")),
     raised |-> FALSE, msg |-> ""]

\* the handler that resets the record, folio included
EmitirExceptClearsFolio(id, doc, msg) ==
    [doc |-> [doc EXCEPT !.state = "error", !.error_message = PyStr(msg),
                         !.numero_boleta = ""],
     fx  |-> Then(Log("Error emitiendo boleta " \o IntToStr(id) \o ": " \o msg),
                  MessagePost(id, "Error emitiendo boleta: " \o msg, "comment")),
     raised |-> FALSE, msg |-> ""]

\* except Exception as e: the record goes to error with str(e); nothing is raised again
EmitirExcept(id, doc, msg) ==
    [doc |-> [doc EXCEPT !.state = "error", !.error_message = PyStr(msg)],
     fx  |-> Then(Log("Error emitiendo boleta " \o IntToStr(id) \o ": " \o msg),
                  MessagePost(id, "Error emitiendo boleta: " \o msg, "comment")),
     raised |-> FALSE, msg |-> ""]

\* the end of a try block: the record, the effects, the exception if any
Raised(doc, fx, msg) == [doc |-> doc, fx |-> fx, raised |-> TRUE, msg |-> msg]
Also(fx, r) == [r EXCEPT !.fx = Then(fx, @)]

\* the classification of the dict and the processing it selects
Classify(id, doc, o, mail) ==
    IF ClassifiedSuccessful(o)
    THEN process_successful_response(id, doc, o, mail)
    ELSE process_error_response(id, doc, o)

\* what follows _call_simpleapi with result c: response.get fails on a list
AfterCall(id, doc, c, mail) ==
    IF c.res.raised
    THEN Raised(doc, c.fx, c.res.msg)
    ELSE IF c.res.value.json # "object"
    THEN Raised(doc, c.fx, "'list' object has no attribute 'get'")
    ELSE Also(c.fx, Classify(id, doc, c.res.value.obj, mail))

\* what follows the first four statements, whose result is s
AfterStart(id, s, env) ==
    IF FailedPrecondition(s.doc) # ""
    THEN Raised(s.doc, s.fx, FailedPrecondition(s.doc))
    ELSE Also(s.fx, AfterCall(id, s.doc, call_simpleapi(id, env.issue), env.mail))

\* the body of the try, up to its end or up to the exception raised in it
EmitirTry(id, doc, env) == AfterStart(id, StartEmision(id, doc), env)

\* except Exception applied to the result t of the try
Handled(id, t) ==
    IF t.raised THEN Also(t.fx, EmitirExcept(id, t.doc, t.msg)) ELSE t

\* try ... except Exception
EmitirRecord(id, doc, env) == Handled(id, EmitirTry(id, doc, env))

----------------------------------------------------------------------------
(* action_anular_boleta (legacy), one record of the loop *)

CanVoid(doc) == doc.state \in {"emitted", "downloaded"}

\* the interpretation that takes every dict as a success
LegacyOkAnyDict(reply) ==
    IF reply.json = "invalid"
    THEN LET txt == Lower(reply.text)
         IN  Contains(txt, "anulada") \/ Contains(txt, "correctamente")
    ELSE reply.json = "object"

\* the interpretation that looks for the keywords without lower()
LegacyOkCaseSensitive(reply) ==
    IF reply.json = "invalid"
    THEN Contains(reply.text, "anulada") \/ Contains(reply.text, "correctamente")
    ELSE reply.json = "object" /\ ~Truthy(Get(reply.obj, "error"))

\* the interpretation of an HTTP 200 answer
LegacyOk(reply) ==
    IF reply.json = "invalid"
    THEN LET txt == Lower(reply.text)
         IN  Contains(txt, "anulada") \/ Contains(txt, "correctamente")
    ELSE reply.json = "object" /\ ~Truthy(Get(reply.obj, "error"))

\* the configuration is read, the request is announced in the log and sent
LegacySent(id, doc, config) ==
    Then(config.fx,
    Then(Log("[BHE] POST legacy " \o config.base_url \o "/bhe/anular key="
                 \o mask_key(PyStr(config.api_key))),
         Fx(<<Request("anular", id, doc.numero_boleta, "")>>, <<>>)))

AnularRecord(id, doc, env) ==
    IF ~CanVoid(doc)
    THEN [doc |-> doc, fx |-> NoFx, raised |-> TRUE,
          msg |-> "Solo se pueden anular boletas emitidas"]
    ELSE LET reply == env.void
             sent  == LegacySent(id, doc, Config)
             body_preview == Prefix(reply.text, 300)
         IN  IF reply.transport = "fail"
             THEN [doc |-> doc, fx |-> sent, raised |-> TRUE,
                   msg |-> "Error anulando boleta: " \o reply.cause]
             ELSE IF reply.status = 200 /\ LegacyOk(reply)
             THEN [doc |-> [doc EXCEPT !.state = "cancelled"],
                   fx  |-> Then(sent, MessagePost(id,
                             "Boleta " \o doc.numero_boleta
                                 \o " anulada exitosamente (legacy). Resp: " \o body_preview,
                             "notification")),
                   raised |-> FALSE, msg |-> ""]
             ELSE [doc |-> doc, fx |-> sent, raised |-> TRUE,
                   msg |-> "Error anulando boleta: Error anulando boleta: " \o body_preview]

----------------------------------------------------------------------------
(* action_anular_boleta_path, one record of the loop *)

\* the flag without the default of get: an absent success reads None
SuccessFlagNoDefault(o) == Lower(Str(Get(o, "success"))) \in {"true", "1", "yes"}

\* str(data.get('success', 'true')).lower() in ('true', '1', 'yes')
SuccessFlag(o) == Lower(Str(GetDefault(o, "success", PyStr("true")))) \in {"true", "1", "yes"}

HasError(o) == Truthy(Get(o, "error"))

\* the interpretation that asks a body that is no dict for the keywords
PathOkNeedsKeyword(reply) ==
    IF reply.json = "object"
    THEN SuccessFlag(reply.obj) /\ ~HasError(reply.obj)
    ELSE Contains(Lower(reply.text), "anulada") \/ Contains(Lower(reply.text), "correctamente")

\* the interpretation of an HTTP 200/202 answer: a dict is judged by its
\* success and error members, anything else is taken as cancelled
PathOk(reply) ==
    IF reply.json = "object"
    THEN SuccessFlag(reply.obj) /\ ~HasError(reply.obj)
    ELSE TRUE

\* the checks without the one of motivo_anulacion
PathPreconditionNoMotivo(doc) ==
    IF ~CanVoid(doc)
    THEN "Solo se pueden anular boletas emitidas o descargadas"
    ELSE IF doc.numero_boleta = ""
    THEN "No existe folio para anular"
    ELSE ""

PathPrecondition(doc) ==
    IF ~CanVoid(doc)
    THEN "Solo se pueden anular boletas emitidas o descargadas"
    ELSE IF doc.numero_boleta = ""
    THEN "No existe folio para anular"
    ELSE IF doc.motivo_anulacion \notin {"1", "2", "3"}
    THEN "Debe seleccionar un motivo valido (1, 2 o 3)"
    ELSE ""

\* the configuration is read, the request is announced in the log with the
\* two members of its body written as stars, and sent
PathSent(id, folio, motivo, config) ==
    Then(config.fx,
    Then(Log("[BHE] POST " \o config.base_url \o "/bhe/anular/" \o folio \o "/" \o motivo
                 \o " key=" \o mask_key(PyStr(config.api_key))
                 \o " -> body={'RutUsuario':'***','PasswordSII':'***'}"),
         Fx(<<Request("anular_path", id, folio, motivo)>>, <<>>)))

\* requests.post raised: the warning of the handler of Exception
PathFailed(id, doc, folio, motivo, config, reply) ==
    Then(PathSent(id, folio, motivo, config),
         Log("[BHE] Error inesperado anulando boleta " \o doc.numero_boleta
                 \o ": " \o reply.cause))

\* the answer is written to the log, its body cut at 300 characters
PathAnswered(id, folio, motivo, config, reply) ==
    Then(PathSent(id, folio, motivo, config),
         Log("[BHE] Anular status=" \o IntToStr(reply.status)
                 \o " body=" \o Prefix(reply.text, 300)))

AnularPathRecord(id, doc, env) ==
    IF PathPrecondition(doc) # ""
    THEN [doc |-> doc, fx |-> NoFx, raised |-> TRUE, msg |-> PathPrecondition(doc)]
    ELSE LET reply  == env.void
             folio  == Strip(doc.numero_boleta)
             motivo == doc.motivo_anulacion
             sent   == PathAnswered(id, folio, motivo, Config, reply)
             body_preview == Prefix(reply.text, 300)
             txt    == Strip(reply.text)
         IN  IF reply.transport = "fail"
             THEN [doc |-> doc,
                   fx |-> PathFailed(id, doc, folio, motivo, Config, reply),
                   raised |-> TRUE,
                   msg |-> "Error inesperado anulando boleta: " \o reply.cause]
             ELSE IF reply.status \notin {200, 202}
             THEN [doc |-> doc, fx |-> sent, raised |-> TRUE,
                   msg |-> "Error anulando boleta: " \o IntToStr(reply.status)
                               \o " - " \o body_preview]
             ELSE IF PathOk(reply)
             THEN [doc |-> [doc EXCEPT !.state = "cancelled"],
                   fx  |-> Then(sent, MessagePost(id,
                             IF reply.json = "object"
                                \/ (txt # "" /\ (Contains(Lower(txt), "anulada")
                                                 \/ Contains(Lower(txt), "correctamente")))
                             THEN "Boleta " \o folio \o " anulada exitosamente (motivo "
                                      \o motivo \o "). Resp: "
                                      \o (IF reply.json = "object" THEN "{json}" ELSE txt)
                             ELSE "Boleta " \o folio \o " anulada (HTTP "
                                      \o IntToStr(reply.status) \o ") sin JSON; cuerpo: "
                                      \o Prefix(txt, 300),
                             "notification")),
                   raised |-> FALSE, msg |-> ""]
             ELSE [doc |-> doc, fx |-> sent, raised |-> TRUE,
                   msg |-> "Error anulando boleta: "
                               \o Str(Or(Get(reply.obj, "error"), PyObj("{json}")))]

----------------------------------------------------------------------------
(* _validate_rut.  The characters of the inputs are ASCII, for which        *)
(* str.isdigit() holds of 0-9 only.                                         *)

UpperChar(c) ==
    IF \E i \in 1..26 : LowerChars[i] = c
    THEN UpperChars[CHOOSE i \in 1..26 : LowerChars[i] = c]
    ELSE c

\* str.upper()
RECURSIVE Upper(_)
Upper(s) == IF Len(s) = 0 THEN ""
            ELSE UpperChar(CharAt(s, 1)) \o Upper(SubSeq(s, 2, Len(s)))

\* numero.isdigit()
IsAllDigits(s) == Len(s) > 0 /\ \A i \in 1..Len(s) : IsDigit(CharAt(s, i))

RECURSIVE RutSumaNoCycle(_, _)
\* the loop whose multiplier keeps growing after 7
RutSumaNoCycle(numero, mult) ==
    IF Len(numero) = 0 THEN 0
    ELSE DigitValue(CharAt(numero, Len(numero))) * mult
             + RutSumaNoCycle(SubSeq(numero, 1, Len(numero) - 1), mult + 1)

RECURSIVE RutSuma(_, _)
\* for d in reversed(numero): suma += int(d) * mult; mult = mult + 1 if mult < 7 else 2
RutSuma(numero, mult) ==
    IF Len(numero) = 0 THEN 0
    ELSE DigitValue(CharAt(numero, Len(numero))) * mult
             + RutSuma(SubSeq(numero, 1, Len(numero) - 1),
                       IF mult < 7 THEN mult + 1 ELSE 2)

\* dv_calc
DvCalc(resto) == IF resto = 0 THEN "0"
                 ELSE IF resto = 1 THEN "K"
                 ELSE IntToStr(11 - resto)

\* what follows the normalisation: the length, the body, the check character
RutChecked(rut) ==
    IF Len(rut) < 8 THEN FALSE
    ELSE LET numero == SubSeq(rut, 1, Len(rut) - 1)
             dv     == CharAt(rut, Len(rut))
         IN  IsAllDigits(numero) /\ dv = DvCalc(RutSuma(numero, 2) % 11)

validate_rut(rut) ==
    IF rut = "" THEN FALSE ELSE RutChecked(Upper(PlainRut(rut)))

----------------------------------------------------------------------------
(* The loops over the recordset (for record in self).  batch is the        *)
(* recordset, a sequence of ids; env gives each id the answers of the API. *)
(* The result holds the records after the loop, the effects, and the       *)
(* exception that ended the loop, with the position at of its record.      *)

Done(ds) == [docs |-> ds, fx |-> NoFx, raised |-> FALSE, msg |-> "", at |-> 0]

\* the exception of record r, the i-th, leaves the loop
Stopped(ds, id, r, i) ==
    [docs |-> [ds EXCEPT ![id] = r.doc], fx |-> r.fx, raised |-> TRUE, msg |-> r.msg, at |-> i]

\* the effects of record r come before those of the rest of the loop
After(r, rest) == [rest EXCEPT !.fx = Then(r.fx, @)]

RECURSIVE EmitirLoopTryOutside(_, _, _, _)
\* the loop with the try around it: the first record that fails ends it
TryOutsideNext(batch, env, ds, i, r) ==
    IF r.raised \/ r.doc.state = "error"
    THEN [docs |-> [ds EXCEPT ![batch[i]] = r.doc], fx |-> r.fx,
          raised |-> r.raised, msg |-> r.msg, at |-> IF r.raised THEN i ELSE 0]
    ELSE After(r, EmitirLoopTryOutside(batch, env, [ds EXCEPT ![batch[i]] = r.doc], i + 1))
EmitirLoopTryOutside(batch, env, ds, i) ==
    IF i > Len(batch) THEN Done(ds)
    ELSE TryOutsideNext(batch, env, ds, i,
                        EmitirRecord(batch[i], ds[batch[i]], env[batch[i]]))

RECURSIVE EmitirLoop(_, _, _, _)
\* after record r, the i-th: the next record, unless r raised
EmitirNext(batch, env, ds, i, r) ==
    IF r.raised THEN Stopped(ds, batch[i], r, i)
    ELSE After(r, EmitirLoop(batch, env, [ds EXCEPT ![batch[i]] = r.doc], i + 1))

\* action_emitir_boleta: the try is inside the loop
EmitirLoop(batch, env, ds, i) ==
    IF i > Len(batch) THEN Done(ds)
    ELSE EmitirNext(batch, env, ds, i, EmitirRecord(batch[i], ds[batch[i]], env[batch[i]]))

RECURSIVE AnularLoop(_, _, _, _)
AnularNext(batch, env, ds, i, r) ==
    IF r.raised THEN Stopped(ds, batch[i], r, i)
    ELSE After(r, AnularLoop(batch, env, [ds EXCEPT ![batch[i]] = r.doc], i + 1))

\* action_anular_boleta: an exception leaves the loop
AnularLoop(batch, env, ds, i) ==
    IF i > Len(batch) THEN Done(ds)
    ELSE AnularNext(batch, env, ds, i, AnularRecord(batch[i], ds[batch[i]], env[batch[i]]))

RECURSIVE AnularPathLoop(_, _, _, _)
AnularPathNext(batch, env, ds, i, r) ==
    IF r.raised THEN Stopped(ds, batch[i], r, i)
    ELSE After(r, AnularPathLoop(batch, env, [ds EXCEPT ![batch[i]] = r.doc], i + 1))

\* action_anular_boleta_path: an exception leaves the loop
AnularPathLoop(batch, env, ds, i) ==
    IF i > Len(batch) THEN Done(ds)
    ELSE AnularPathNext(batch, env, ds, i,
                        AnularPathRecord(batch[i], ds[batch[i]], env[batch[i]]))

----------------------------------------------------------------------------
(* The answers of the API the model explores *)

FolioKeySet == {FolioKeys[i] : i \in 1..Len(FolioKeys)}
KeyIndex(k) == CHOOSE i \in 1..Len(FolioKeys) : FolioKeys[i] = k

\* a folio of its own for each key, of both JSON types, and an empty value for each
FolioValue == [folio |-> PyStr("11"), numeroDocumento |-> PyInt(22),
               numero_boleta |-> PyStr("33"), numeroBoleta |-> PyInt(44),
               numero |-> PyStr("55")]
FolioEmpty == [folio |-> PyStr(""), numeroDocumento |-> PyInt(0),
               numero_boleta |-> PyNone, numeroBoleta |-> PyStr(""),
               numero |-> PyInt(0)]

\* the object with the keys of P, those of E empty
FolioObject(P, E) ==
    [k \in Keys |-> IF k \in E THEN FolioEmpty[k]
                    ELSE IF k \in P THEN FolioValue[k] ELSE Absent]

\* at most two folio keys, all with a value or the first of them empty
FolioObjects ==
    { FolioObject(P, {}) : P \in {Q \in SUBSET FolioKeySet : Cardinality(Q) <= 2} }
    \cup
    { FolioObject(P, {CHOOSE k \in P : \A j \in P : KeyIndex(k) <= KeyIndex(j)}) :
        P \in {Q \in SUBSET FolioKeySet : Cardinality(Q) \in {1, 2}} }

With(o, k, v) == [o EXCEPT ![k] = v]

IssueObjects ==
    FolioObjects
    \cup { With(o, "success", PyTrue) :
             o \in {FolioObject(P, {}) : P \in {Q \in SUBSET FolioKeySet : Cardinality(Q) <= 1}} }
    \cup { Obj([success |-> PyFalse]),
           Obj([success |-> PyFalse, folio |-> PyStr("11")]),
           Obj([success |-> PyTrue, error |-> PyStr("x")]),
           Obj([error |-> PyStr("x")]),
           Obj([error |-> PyStr(""), mensaje |-> PyStr("m")]),
           Obj([detalle |-> PyInt(7)]),
           Obj([numero_boleta |-> PyStr("33"), mensaje |-> PyStr("m")]),
           Obj([success |-> PyFalse, numeroBoleta |-> PyInt(44), detalle |-> PyInt(7)]),
           Obj([folio |-> PyStr("123"), anio |-> PyStr("2024")]),
           Obj([folio |-> PyStr("123"), anio |-> PyStr("s/a"), year |-> PyInt(2023)]) }

IssueReplies ==
    { Reply(200, "object", o, "{json}") : o \in IssueObjects }
    \cup { TransportFailure("timeout"),
           TextReply(500, "Internal Server Error"),
           JsonReply(202, [folio |-> PyStr("11")]),
           TextReply(200, "<html>"),
           ArrayReply(200) }

MailReplies ==
    { JsonReply(200, [success |-> PyTrue]),
      TextReply(202, ""),
      TextReply(500, "Internal Server Error"),
      TransportFailure("timeout") }

VoidObjects ==
    { EmptyObj,
      Obj([error |-> PyNone]),
      Obj([error |-> PyStr("x")]),
      Obj([success |-> PyTrue]),
      Obj([success |-> PyInt(1)]),
      Obj([success |-> PyStr("YES")]),
      Obj([success |-> PyFalse]),
      Obj([success |-> PyNone]),
      Obj([success |-> PyStr("no")]),
      Obj([success |-> PyInt(2)]),
      Obj([success |-> PyTrue, error |-> PyStr("x")]),
      Obj([success |-> PyFalse, error |-> PyStr("")]) }

VoidTexts == {"Boleta anulada correctamente", "BOLETA ANULADA", "Procesado Correctamente",
              "Error interno", "", "  "}

VoidReplies ==
    { Reply(st, "object", o, "{json}") : st \in {200, 202}, o \in VoidObjects }
    \cup { TextReply(st, t) : st \in {200, 202}, t \in VoidTexts }
    \cup { ArrayReply(200), ArrayReply(202),
           TextReply(500, "Boleta anulada correctamente"),
           JsonReply(404, [success |-> PyTrue]),
           TransportFailure("timeout") }

\* the answers tried on the recordsets of several records
BatchIssueReplies ==
    { JsonReply(200, [folio |-> PyStr("11")]),
      TransportFailure("timeout") }

BatchMailReplies == { TextReply(202, "") }

BatchVoidReplies ==
    { JsonReply(200, [error |-> PyNone]),
      TextReply(500, "Internal Server Error") }

----------------------------------------------------------------------------
(* The state *)

Range(q) == {q[i] : i \in 1..Len(q)}

\* the recordsets: the non-empty sequences of distinct ids.  The records
\* start out interchangeable, so taking the ids in ascending order loses nothing
Batches(ids) ==
    { q \in UNION {[1..n -> ids] : n \in 1..Cardinality(ids)} :
        \A i, j \in 1..Len(q) : i < j => q[i] < q[j] }

NoEnv == [issue |-> NoReply, mail |-> NoReply, void |-> NoReply]

Asked(fx, ep, id) == \E i \in 1..Len(fx.http) : fx.http[i].ep = ep /\ fx.http[i].doc = id

\* the answers the invocation has read: those of the requests it sent
Consumed(env, fx, ids) ==
    [id \in ids |->
        IF id \in DOMAIN env
        THEN [issue |-> IF Asked(fx, "emitir", id) THEN env[id].issue ELSE NoReply,
              mail  |-> IF Asked(fx, "mail", id) THEN env[id].mail ELSE NoReply,
              void  |-> IF Asked(fx, "anular", id) \/ Asked(fx, "anular_path", id)
                        THEN env[id].void ELSE NoReply]
        ELSE NoEnv]

\* between two invocations nothing is being observed
Idle(ds) == [op |-> "idle", batch |-> <<>>, env |-> [id \in DOMAIN ds |-> NoEnv],
             pre |-> ds, raised |-> FALSE, msg |-> "", at |-> 0]

\* a record has been emitted once an invocation has left it emitted (no
\* invocation writes the state of a record after it has written emitted)
Trailed(ds) == [id \in DOMAIN ds |->
                   [trail[id] EXCEPT !.emitted = @ \/ ds[id].state = "emitted"]]

\* the invocation op on recordset batch with result r becomes the state
Invoke(op, batch, env, r) ==
    /\ docs' = r.docs
    /\ log' = r.fx.log
    /\ trail' = Trailed(r.docs)
    /\ last' = [op |-> op, batch |-> batch,
                env |-> Consumed(env, r.fx, DOMAIN docs),
                pre |-> docs, raised |-> r.raised, msg |-> r.msg, at |-> r.at]
    /\ http' = r.fx.http
    /\ chatter' = r.fx.posts

\* with one record every answer is tried, with several the representative ones
Single == Cardinality(DOMAIN docs) = 1

IssueEnvs == [issue : IF Single THEN IssueReplies ELSE BatchIssueReplies,
              mail  : IF Single THEN MailReplies ELSE BatchMailReplies,
              void  : {NoReply}]

VoidEnvs == [issue : {NoReply}, mail : {NoReply},
             void  : IF Single THEN VoidReplies ELSE BatchVoidReplies]

action_emitir_boleta ==
    /\ last.op = "idle"
    /\ \E batch \in Batches(DOMAIN docs) :
        /\ \A i \in 1..Len(batch) : docs[batch[i]].intentos < MaxIntentos
        /\ \E env \in [Range(batch) -> IssueEnvs] :
               Invoke("emitir", batch, env, EmitirLoop(batch, env, docs, 1))

action_anular_boleta ==
    /\ last.op = "idle"
    /\ \E batch \in Batches(DOMAIN docs) :
        \E env \in [Range(batch) -> VoidEnvs] :
            Invoke("anular", batch, env, AnularLoop(batch, env, docs, 1))

action_anular_boleta_path ==
    /\ last.op = "idle"
    /\ \E batch \in Batches(DOMAIN docs) :
        \E env \in [Range(batch) -> VoidEnvs] :
            Invoke("anular_path", batch, env, AnularPathLoop(batch, env, docs, 1))

\* the placeholders: return, nothing read or written
schedule_pdf_download ==
    /\ last.op = "idle"
    /\ \E batch \in Batches(DOMAIN docs) :
        Invoke("schedule_pdf_download", batch, [id \in {} |-> NoEnv], Done(docs))

action_download_pdf ==
    /\ last.op = "idle"
    /\ \E batch \in Batches(DOMAIN docs) :
        Invoke("download_pdf", batch, [id \in {} |-> NoEnv], Done(docs))

cron_download_pending_pdfs ==
    /\ last.op = "idle"
    /\ Invoke("cron_download_pending_pdfs", <<>>, [id \in {} |-> NoEnv], Done(docs))

\* the method has returned (or raised): the caller has the result, the records
\* stay as the invocation left them, and the next invocation can start
EndOfRequest ==
    /\ last.op # "idle"
    /\ last' = Idle(docs)
    /\ http' = <<>>
    /\ chatter' = <<>>
    /\ log' = <<>>
    /\ UNCHANGED <<docs, trail>>

Next ==
    \/ action_emitir_boleta
    \/ action_anular_boleta
    \/ action_anular_boleta_path
    \/ schedule_pdf_download
    \/ action_download_pdf
    \/ cron_download_pending_pdfs
    \/ EndOfRequest

----------------------------------------------------------------------------
(* Spec: one record, every answer of the API *)

\* records as the create() of the ORM leaves them: drafts, and records of
\* the releases that downloaded the PDF, imported with or without a folio
Imported(doc, numero) == [doc EXCEPT !.state = "downloaded", !.numero_boleta = numero]

Drafts ==
    { NewDoc(desc, valor, email, motivo) :
        desc \in {"", "Asesoria"}, valor \in {0, 1000},
        email \in {"", "sin arroba", "ana@dominio.cl"}, motivo \in {"", "2"} }

InitDocs ==
    Drafts
    \cup { Imported(NewDoc("Asesoria", 1000, "ana@dominio.cl", motivo), numero) :
             motivo \in {"", "1", "3"}, numero \in {"", "77"} }

\* the trail of the records as created
Created(ds) == [id \in DOMAIN ds |->
                   [created |-> ds[id].state, emitted |-> ds[id].state = "emitted"]]

Init ==
    /\ docs \in [{1} -> InitDocs]
    /\ last = Idle(docs)
    /\ http = <<>>
    /\ chatter = <<>>
    /\ log = <<>>
    /\ trail = Created(docs)

Spec == Init /\ [][Next]_vars

----------------------------------------------------------------------------
(* BatchSpec: recordsets of several records, representative answers *)

BatchInitDocs ==
    { NewDoc("Asesoria", 1000, "ana@dominio.cl", "1"),
      NewDoc("", 1000, "ana@dominio.cl", "1") }

BatchInit ==
    /\ docs \in [1..NDocs -> BatchInitDocs]
    /\ last = Idle(docs)
    /\ http = <<>>
    /\ chatter = <<>>
    /\ log = <<>>
    /\ trail = Created(docs)

BatchSpec == BatchInit /\ [][Next]_vars

----------------------------------------------------------------------------
(* UtilSpec: the constraints on the two RUT fields and the reading of the   *)
(* configuration, on inputs of their own                                    *)

\* the longest API key stored in the configuration
MaxKeyLen == 26

CheckChars == {"0", "1", "2", "3", "4", "5", "6", "7", "8", "9", "K"}

RutBodies == {"1234567", "12345678", "11111111", "22222222", "9999999", "99999999",
              "10000000", "0000000", "7654321", "1000001", "1000005", "20000003",
              "123456789"}

\* every body with every check character; RUTs as they are typed, with dots,
\* dash and a small k; inputs that are too short, also once stripped; bodies
\* that are no numbers
RutInputs ==
    { b \o c : b \in RutBodies, c \in CheckChars }
    \cup { "12.345.678-5", "11.111.111-1", "20.000.003-k", "1000005k", "1.000.005-K",
           "12.345.678-9", "20.000.003-0" }
    \cup { "", "1-9", "1234567", "123456-0", "999999K", "1.234.56-7", "...-", "12345678-" }
    \cup { "1234567A5", "ABCDEFGH", "12 345 678-5", "K2345678-5" }

ReceptorRuts == { "", "22.222.222-2", "76543216", "7654321-K", "1-9" }

ApiKeyBases == { DefaultApiKey \o "-X", "abcdefghijklmnopqrstuvwxyz" }

\* the keys of every length up to MaxKeyLen
ApiKeys == { Prefix(b, n) : b \in ApiKeyBases, n \in 0..MaxKeyLen }

\* the write of a RUT field of record id, whose constraint refuses a RUT
\* that is not empty and not valid
Written(op, id, field, rut, refused, msg) ==
    /\ docs' = IF refused THEN docs ELSE [docs EXCEPT ![id][field] = rut]
    /\ last' = [op |-> op, batch |-> <<id>>, env |-> [i \in DOMAIN docs |-> NoEnv],
                pre |-> docs, raised |-> refused, msg |-> IF refused THEN msg ELSE "",
                at |-> IF refused THEN 1 ELSE 0, rut |-> rut]
    /\ http' = <<>>
    /\ chatter' = <<>>
    /\ log' = <<>>
    /\ UNCHANGED trail

\* _check_rut_usuario
check_rut_usuario ==
    /\ last.op = "idle"
    /\ \E id \in DOMAIN docs : \E rut \in RutInputs :
           Written("check_rut_usuario", id, "rut_usuario", rut,
                   rut # "" /\ ~validate_rut(rut), "El RUT del usuario no es valido")

\* _check_receptor_rut
check_receptor_rut ==
    /\ last.op = "idle"
    /\ \E id \in DOMAIN docs : \E rut \in ReceptorRuts :
           Written("check_receptor_rut", id, "receptor_rut", rut,
                   rut # "" /\ ~validate_rut(rut), "El RUT del receptor no es valido")

\* get_simpleapi_config called with api_key stored in the configuration:
\* it returns the dict and leaves its line in the log
simpleapi_config ==
    /\ last.op = "idle"
    /\ \E api_key \in ApiKeys :
        /\ last' = [op |-> "get_simpleapi_config", batch |-> <<>>,
                    env |-> [i \in DOMAIN docs |-> NoEnv], pre |-> docs,
                    raised |-> FALSE, msg |-> "", at |-> 0,
                    value |-> get_simpleapi_config(api_key)]
        /\ log' = get_simpleapi_config(api_key).fx.log
        /\ http' = <<>>
        /\ chatter' = <<>>
        /\ UNCHANGED <<docs, trail>>

UtilInit ==
    /\ docs \in [{1} -> {NewDoc("Asesoria", 1000, "ana@dominio.cl", "1")}]
    /\ last = Idle(docs)
    /\ http = <<>>
    /\ chatter = <<>>
    /\ log = <<>>
    /\ trail = Created(docs)

UtilNext ==
    \/ check_rut_usuario
    \/ check_receptor_rut
    \/ simpleapi_config
    \/ EndOfRequest

UtilSpec == UtilInit /\ [][UtilNext]_vars

----------------------------------------------------------------------------
(* The claims.  They read the state after an invocation: last holds the     *)
(* operation, its recordset, the answers read and the records before it.    *)

Ids == DOMAIN docs
InBatch(id) == id \in Range(last.batch)
Pos(id) == CHOOSE i \in 1..Len(last.batch) : last.batch[i] = id
\* the loop got to the record / the exception came from the record
Reached(id) == InBatch(id) /\ (~last.raised \/ Pos(id) <= last.at)
RaisedFor(id) == InBatch(id) /\ last.raised /\ Pos(id) = last.at
SentTo(ep, id) == \E i \in 1..Len(http) : http[i].ep = ep /\ http[i].doc = id
PostedFor(id) == \E i \in 1..Len(chatter) : chatter[i].doc = id

Issued(id) == last.op = "emitir" /\ Reached(id)
Voided(id) == last.op \in {"anular", "anular_path"} /\ Reached(id)
VoidSent(id) == SentTo("anular", id) \/ SentTo("anular_path", id)

PreconditionsPass(d) ==
    /\ d.descripcion_servicio # ""
    /\ d.valor_bruto > 0
    /\ Contains(d.email_destinatario, "@")

Is200Object(r) == r.transport = "ok" /\ r.status = 200 /\ r.json = "object"

\* classified as successful, in the words of the specification
SaidSuccessful(o) ==
    \/ Truthy(Get(o, "success"))
    \/ \E k \in {"numeroDocumento", "numero", "folio"} : Truthy(Get(o, k))

ClaimedFolioOrder == <<"folio", "numeroDocumento", "numero_boleta", "numeroBoleta", "numero">>
NonEmptyCandidates(o) ==
    {i \in 1..Len(ClaimedFolioOrder) : Truthy(Get(o, ClaimedFolioOrder[i]))}
FirstCandidate(o) ==
    LET i == CHOOSE i \in NonEmptyCandidates(o) : \A j \in NonEmptyCandidates(o) : i <= j
    IN  Get(o, ClaimedFolioOrder[i])

\* C1: an issue whose three preconditions pass and whose answer is HTTP 200
\* with an object classified successful that holds a non-empty folio candidate
\* ends emitted, numero_boleta the string of the first non-empty candidate in
\* the order folio, numeroDocumento, numero_boleta, numeroBoleta, numero, and
\* error_message cleared.
C1_IssueSuccess ==
    \A id \in Ids :
        (/\ Issued(id)
         /\ PreconditionsPass(last.pre[id])
         /\ Is200Object(last.env[id].issue)
         /\ SaidSuccessful(last.env[id].issue.obj)
         /\ NonEmptyCandidates(last.env[id].issue.obj) # {})
        => /\ docs[id].state = "emitted"
           /\ docs[id].numero_boleta = Str(FirstCandidate(last.env[id].issue.obj))
           /\ docs[id].error_message = PyFalse

\* a retry after a failure succeeds on an answer whose first candidate is
\* empty and whose folio is a JSON number
C1_Witness ==
    \E id \in Ids :
        /\ Issued(id)
        /\ Is200Object(last.env[id].issue)
        /\ last.env[id].issue.obj["folio"] = PyStr("")
        /\ last.env[id].issue.obj["numeroDocumento"] = PyInt(22)
        /\ last.pre[id].state = "error"
        /\ Truthy(last.pre[id].error_message)
        /\ docs[id].state = "emitted"
        /\ docs[id].numero_boleta = "22"
        /\ docs[id].error_message = PyFalse

\* C2: an issue whose answer is classified successful by a truthy success and
\* holds no non-empty folio candidate ends in error with the message of the
\* missing folio, numero_boleta as before the call, and no email request sent.
C2_SuccessWithoutFolio ==
    \A id \in Ids :
        (/\ Issued(id)
         /\ PreconditionsPass(last.pre[id])
         /\ Is200Object(last.env[id].issue)
         /\ Truthy(Get(last.env[id].issue.obj, "success"))
         /\ NonEmptyCandidates(last.env[id].issue.obj) = {})
        => /\ docs[id].state = "error"
           /\ docs[id].error_message = PyStr("Respuesta exitosa pero sin numero de boleta")
           /\ docs[id].numero_boleta = last.pre[id].numero_boleta
           /\ ~SentTo("mail", id)

\* the record held a folio before the call and still holds it
C2_Witness ==
    \E id \in Ids :
        /\ Issued(id)
        /\ Is200Object(last.env[id].issue)
        /\ Truthy(Get(last.env[id].issue.obj, "success"))
        /\ NonEmptyCandidates(last.env[id].issue.obj) = {}
        /\ last.pre[id].state = "emitted"
        /\ last.pre[id].numero_boleta = "11"
        /\ docs[id].state = "error"
        /\ docs[id].numero_boleta = "11"
        /\ ~SentTo("mail", id)

PreconditionMessages ==
    {"Debe agregar una descripcion del servicio",
     "El valor bruto debe ser mayor a cero",
     "Debe indicar un correo destinatario valido (ej: correo@dominio.cl)"}

\* the stage of the issue of id that failed, "" when none did
FailedStage(id) ==
    LET r == last.env[id].issue
    IN  IF ~PreconditionsPass(last.pre[id]) THEN "precondition"
        ELSE IF r.transport = "fail" THEN "transport"
        ELSE IF r.status # 200 THEN "status"
        ELSE IF r.json # "object" THEN "body"
        ELSE IF ~SaidSuccessful(r.obj) THEN "answer"
        ELSE ""

\* C3: issue raises nothing; after it every record of the recordset is in
\* emitted or error; and when a precondition, the transport, the status, the
\* body or the answer fails, the record is in error with the failure's message.
C3_IssueNeverRaises ==
    last.op = "emitir" =>
        /\ ~last.raised
        /\ \A id \in Ids : InBatch(id) =>
            /\ docs[id].state \in {"emitted", "error"}
            /\ FailedStage(id) # "" =>
                /\ docs[id].state = "error"
                /\ Truthy(docs[id].error_message)
                /\ FailedStage(id) = "precondition"
                    => Str(docs[id].error_message) \in PreconditionMessages
                /\ FailedStage(id) = "transport"
                    => Contains(Str(docs[id].error_message), last.env[id].issue.cause)
                /\ FailedStage(id) = "status"
                    => Contains(Str(docs[id].error_message),
                                IntToStr(last.env[id].issue.status))
                /\ FailedStage(id) = "answer"
                    => docs[id].error_message # PyStr("Respuesta exitosa pero sin numero de boleta")

\* an emitted record is issued again, the answer is HTTP 200 with a JSON
\* array, and it ends in error
C3_Witness ==
    \E id \in Ids :
        /\ Issued(id)
        /\ FailedStage(id) = "body"
        /\ last.env[id].issue.json = "array"
        /\ last.pre[id].state = "emitted"
        /\ docs[id].state = "error"
        /\ ~last.raised

SameOutcome(d, alone) ==
    /\ d.state = alone.state
    /\ d.numero_boleta = alone.numero_boleta
    /\ d.error_message = alone.error_message

\* C4: issue on a recordset increments intentos of every record of it, and
\* leaves each record as the issue of that record alone, with the same
\* answers, leaves it; the records outside the recordset are untouched.
C4_BatchIndependent ==
    last.op = "emitir" =>
        \A id \in Ids :
            IF InBatch(id)
            THEN /\ docs[id].intentos = last.pre[id].intentos + 1
                 /\ SameOutcome(docs[id], EmitirRecord(id, last.pre[id], last.env[id]).doc)
            ELSE docs[id] = last.pre[id]

\* a record fails a precondition and the record after it is emitted
C4_Witness ==
    /\ last.op = "emitir"
    /\ \E i, j \in 1..Len(last.batch) :
        /\ i < j
        /\ ~PreconditionsPass(last.pre[last.batch[i]])
        /\ docs[last.batch[i]].state = "error"
        /\ docs[last.batch[j]].state = "emitted"
        /\ docs[last.batch[j]].intentos = last.pre[last.batch[j]].intentos + 1

LegacyPrecondition(d) == d.state \in {"emitted", "downloaded"}
PathPreconditions(d) ==
    /\ d.state \in {"emitted", "downloaded"}
    /\ d.numero_boleta # ""
    /\ d.motivo_anulacion \in {"1", "2", "3"}
VoidPreconditions(op, d) ==
    IF op = "anular" THEN LegacyPrecondition(d) ELSE PathPreconditions(d)

\* C5: a void of a record whose preconditions fail (legacy: state emitted or
\* downloaded; path-style: that, a folio, and a motivo among 1, 2, 3) raises,
\* sends no request for it and leaves it as it was.
C5_VoidRejects ==
    \A id \in Ids :
        (Voided(id) /\ ~VoidPreconditions(last.op, last.pre[id]))
        => /\ RaisedFor(id)
           /\ ~VoidSent(id)
           /\ docs[id] = last.pre[id]

\* an emitted record with a folio and without motivo is refused by the path-style void
C5_Witness ==
    \E id \in Ids :
        /\ last.op = "anular_path"
        /\ Reached(id)
        /\ last.pre[id].state = "emitted"
        /\ last.pre[id].numero_boleta # ""
        /\ last.pre[id].motivo_anulacion = ""
        /\ RaisedFor(id)
        /\ ~VoidSent(id)

\* the void of id failed: the transport, the status, or an object with an error
VoidFailed(id) ==
    LET r == last.env[id].void
    IN  /\ VoidSent(id)
        /\ \/ r.transport = "fail"
           \/ r.status \notin {200, 202}
           \/ r.json = "object" /\ Truthy(Get(r.obj, "error"))

\* C6: a void that fails raises and leaves state and numero_boleta of the
\* record as they were; a void changes a state only to cancelled, and only
\* of a record whose request was answered 200 or 202 without an exception.
C6_VoidFailureFrame ==
    last.op \in {"anular", "anular_path"} =>
        \A id \in Ids :
            /\ (VoidFailed(id) \/ RaisedFor(id)) =>
                /\ RaisedFor(id)
                /\ docs[id].state = last.pre[id].state
                /\ docs[id].numero_boleta = last.pre[id].numero_boleta
            /\ docs[id].state # last.pre[id].state =>
                /\ docs[id].state = "cancelled"
                /\ Reached(id) /\ ~RaisedFor(id)
                /\ last.env[id].void.transport = "ok"
                /\ last.env[id].void.status \in {200, 202}

\* the legacy void of an emitted record is answered 200 with an error object
C6_Witness ==
    \E id \in Ids :
        /\ last.op = "anular"
        /\ last.pre[id].state = "emitted"
        /\ VoidFailed(id)
        /\ last.env[id].void.status = 200
        /\ RaisedFor(id)
        /\ docs[id].state = "emitted"

\* an object without a truthy error and without success
PlainObject(r) ==
    /\ r.transport = "ok"
    /\ r.json = "object"
    /\ ~Truthy(Get(r.obj, "error"))
    /\ r.obj["success"] = Absent

\* C7 as stated: in both variants an answer 200 or 202 with an object without
\* a truthy error and without success makes the record cancelled.
C7_Original ==
    \A id \in Ids :
        (/\ Voided(id) /\ VoidSent(id)
         /\ last.env[id].void.status \in {200, 202}
         /\ PlainObject(last.env[id].void))
        => docs[id].state = "cancelled"

\* C7 amended: such an answer makes the record cancelled in the path-style
\* void at 200 and at 202, and in the legacy void at 200 only; at 202 the
\* legacy void raises and leaves the state.
C7_Amended ==
    \A id \in Ids :
        (/\ Voided(id) /\ VoidSent(id)
         /\ last.env[id].void.status \in {200, 202}
         /\ PlainObject(last.env[id].void))
        => IF last.op = "anular_path" \/ last.env[id].void.status = 200
           THEN docs[id].state = "cancelled" /\ ~last.raised
           ELSE RaisedFor(id) /\ docs[id].state = last.pre[id].state

\* the path-style void of a downloaded record is answered 202 with {}
C7_Witness ==
    \E id \in Ids :
        /\ last.op = "anular_path"
        /\ VoidSent(id)
        /\ last.env[id].void.status = 202
        /\ last.env[id].void.obj = EmptyObj
        /\ PlainObject(last.env[id].void)
        /\ last.pre[id].state = "downloaded"
        /\ docs[id].state = "cancelled"

HasKeyword(text) ==
    Contains(Lower(text), "anulada") \/ Contains(Lower(text), "correctamente")

\* C8: the legacy void answered 200 cancels the record iff the body is an
\* object without a truthy error, or is no JSON and holds anulada or
\* correctamente in lower case; otherwise it raises and leaves the state.
C8_LegacyAt200 ==
    \A id \in Ids :
        (/\ last.op = "anular" /\ Reached(id) /\ SentTo("anular", id)
         /\ last.env[id].void.transport = "ok"
         /\ last.env[id].void.status = 200)
        => LET r  == last.env[id].void
               ok == CASE r.json = "object"  -> ~Truthy(Get(r.obj, "error"))
                       [] r.json = "invalid" -> HasKeyword(r.text)
                       [] OTHER              -> FALSE
           IN  IF ok
               THEN docs[id].state = "cancelled" /\ ~RaisedFor(id)
               ELSE RaisedFor(id) /\ docs[id].state = last.pre[id].state

\* a text in capitals with the keyword cancels
C8_Witness ==
    \E id \in Ids :
        /\ last.op = "anular" /\ SentTo("anular", id)
        /\ last.env[id].void.status = 200
        /\ last.env[id].void.json = "invalid"
        /\ last.env[id].void.text = "BOLETA ANULADA"
        /\ docs[id].state = "cancelled"

PathAt200(id) ==
    /\ last.op = "anular_path" /\ Reached(id) /\ SentTo("anular_path", id)
    /\ last.env[id].void.transport = "ok"
    /\ last.env[id].void.status \in {200, 202}

\* C9 as stated: the path-style void answered 200 or 202 cancels the record
\* unless the body is an object with a truthy error or with a success that
\* is present and not truthy.
C9_Original ==
    \A id \in Ids :
        PathAt200(id) =>
            LET r == last.env[id].void
                refused == /\ r.json = "object"
                           /\ \/ Truthy(Get(r.obj, "error"))
                              \/ r.obj["success"] # Absent /\ ~Truthy(r.obj["success"])
            IN  IF refused
                THEN RaisedFor(id) /\ docs[id].state = last.pre[id].state
                ELSE docs[id].state = "cancelled"

\* C9 amended: ... or with a success that is present and whose string, in
\* lower case, is none of true, 1, yes (a truthy "no" or 2 is refused too).
C9_Amended ==
    \A id \in Ids :
        PathAt200(id) =>
            LET r == last.env[id].void
                refused == /\ r.json = "object"
                           /\ \/ Truthy(Get(r.obj, "error"))
                              \/ /\ r.obj["success"] # Absent
                                 /\ Lower(Str(r.obj["success"])) \notin {"true", "1", "yes"}
            IN  IF refused
                THEN RaisedFor(id) /\ docs[id].state = last.pre[id].state
                ELSE docs[id].state = "cancelled" /\ ~RaisedFor(id)

\* an empty body that is no JSON cancels
C9_Witness ==
    \E id \in Ids :
        /\ PathAt200(id)
        /\ last.env[id].void.json = "invalid"
        /\ last.env[id].void.text = ""
        /\ last.pre[id].state = "emitted"
        /\ docs[id].state = "cancelled"

\* C10 as stated: a record that is cancelled before a lifecycle operation is
\* cancelled after it.
C10_CancelledIsTerminal ==
    \A id \in Ids : last.pre[id].state = "cancelled" => docs[id].state = "cancelled"

\* C11: a record created in draft, with no folio, holds a folio exactly when
\* its state has been emitted at some point up to now; and no issue or void
\* takes the folio away from a record that holds one.
C11_FolioIffEmitted ==
    \A id \in Ids :
        trail[id].created = "draft" =>
            /\ docs[id].numero_boleta # "" <=> trail[id].emitted
            /\ last.pre[id].numero_boleta # "" => docs[id].numero_boleta # ""

\* a record created in draft was emitted, and the issue that followed failed
C11_Witness ==
    \E id \in Ids :
        /\ trail[id].created = "draft"
        /\ Issued(id)
        /\ last.pre[id].state = "emitted"
        /\ docs[id].state = "error"
        /\ trail[id].emitted
        /\ docs[id].numero_boleta # ""

\* the posts about record id, in order
PostsOf(id) == SelectSeq(chatter, LAMBDA p : p.doc = id)

Starting == "Iniciando emision de boleta de honorarios..."

\* C12: issue is refused for no state: it raises nothing, and for every record
\* of the recordset, whatever its state was, it posts the starting
\* notification, adds exactly 1 to intentos, sends the issue request when the
\* preconditions pass, and leaves the record in emitted or error; no void
\* changes intentos.
C12_IssueUnguarded ==
    /\ last.op = "emitir" =>
        /\ ~last.raised
        /\ \A id \in Ids : InBatch(id) =>
            /\ docs[id].intentos = last.pre[id].intentos + 1
            /\ Len(PostsOf(id)) > 0 /\ PostsOf(id)[1].body = Starting
            /\ PreconditionsPass(last.pre[id]) => SentTo("emitir", id)
            /\ docs[id].state \in {"emitted", "error"}
    /\ last.op \in {"anular", "anular_path"} =>
        \A id \in Ids : docs[id].intentos = last.pre[id].intentos

\* a record already emitted, after one attempt, is issued again: the request
\* is sent and it is emitted with the folio of the second answer
C12_Witness ==
    \E id \in Ids :
        /\ Issued(id)
        /\ last.pre[id].state = "emitted"
        /\ last.pre[id].intentos = 1
        /\ SentTo("emitir", id)
        /\ docs[id].intentos = 2
        /\ docs[id].state = "emitted"
        /\ docs[id].numero_boleta # last.pre[id].numero_boleta

\* the mail request was not answered 200 or 202
MailFailed(r) == r.transport = "fail" \/ r.status \notin {200, 202}

\* C13: an issue whose mail request fails, by its status or by an exception
\* of the request, raises nothing and ends with the record emitted, its
\* numero_boleta the folio of the answer, and error_message cleared.
C13_MailFailureKeepsEmitted ==
    \A id \in Ids :
        (Issued(id) /\ SentTo("mail", id) /\ MailFailed(last.env[id].mail))
        => /\ ~last.raised
           /\ docs[id].state = "emitted"
           /\ docs[id].numero_boleta # ""
           /\ docs[id].numero_boleta = Str(FirstCandidate(last.env[id].issue.obj))
           /\ docs[id].error_message = PyFalse

\* a record in error is issued again and emitted, and the mail request times out
C13_Witness ==
    \E id \in Ids :
        /\ Issued(id) /\ SentTo("mail", id)
        /\ last.env[id].mail.transport = "fail"
        /\ last.pre[id].state = "error"
        /\ Truthy(last.pre[id].error_message)
        /\ docs[id].state = "emitted"
        /\ docs[id].error_message = PyFalse

\* the call of _send_mail_via_simpleapi that the issue of record id made:
\* its arguments are the folio, the year and the address of the record
MailCall(id) ==
    send_mail_via_simpleapi(id, docs[id], docs[id].numero_boleta,
                            ExtractAnio(last.env[id].issue.obj, docs[id]),
                            docs[id].email_destinatario, last.env[id].mail)

\* C14 as stated: _send_mail_via_simpleapi raises nothing; it returns True
\* when the status is 200 or 202 and False in every other case, a timeout
\* or a connection error included.
C14_MailNeverRaises ==
    \A id \in Ids :
        (Issued(id) /\ SentTo("mail", id))
        => /\ ~MailCall(id).res.raised
           /\ MailCall(id).res.value =
                  IF MailFailed(last.env[id].mail) THEN PyFalse ELSE PyTrue

\* C15 as stated: when the issue of a record ends in error, when its mail
\* request fails, or when a void of it fails (a precondition, the status, an
\* error body, the transport), at least one message has been posted about
\* the record by the time the operation returns or raises.
C15_FailureLeavesTrail ==
    \A id \in Ids :
        (\/ Issued(id) /\ docs[id].state = "error"
         \/ Issued(id) /\ SentTo("mail", id) /\ MailFailed(last.env[id].mail)
         \/ Voided(id) /\ RaisedFor(id))
        => PostedFor(id)

\* some line of the log holds text
InLog(text) == \E i \in 1..Len(log) : Contains(log[i], text)

\* C16 as stated: no line written to the log by an operation holds the
\* password_sii of a record in clear, nor the API key unmasked.
C16_CredentialsMasked ==
    /\ \A id \in Ids : ~InLog(docs[id].password_sii)
    /\ ~InLog(DefaultApiKey)

\* C17 as stated: a void of a recordset gets to every record of it, also to
\* those that follow a record for which it raised.
C17_VoidBatchIndependent ==
    last.op \in {"anular", "anular_path"} =>
        \A id \in Ids : InBatch(id) => Reached(id)

\* the weight of the k-th digit from the right: 2, 3, 4, 5, 6, 7, 2, 3, ...
ClaimedWeight(k) == 2 + ((k - 1) % 6)

RECURSIVE ClaimedSum(_, _)
\* the weighted sum of the k least significant digits of body
ClaimedSum(body, k) ==
    IF k = 0 THEN 0
    ELSE DigitValue(CharAt(body, Len(body) + 1 - k)) * ClaimedWeight(k)
             + ClaimedSum(body, k - 1)

\* the check character of the claim: 0 for remainder 0, K for 1, else 11 - remainder
ClaimedDv(body) ==
    LET r == ClaimedSum(body, Len(body)) % 11
    IN  IF r = 0 THEN "0" ELSE IF r = 1 THEN "K" ELSE Digits[(11 - r) + 1]

\* rut with its last character replaced by c
WithCheckChar(rut, c) == SubSeq(rut, 1, Len(rut) - 1) \o c

RutChecks == {"check_rut_usuario", "check_receptor_rut"}

\* C18: _validate_rut returns false for an input of less than 8 characters
\* once '.' and '-' are stripped; for a body of at least 7 digits it accepts,
\* among 0-9 and K, exactly the check character of the weighted sum mod 11;
\* and an accepted RUT with its check character replaced by another one is
\* not accepted.
C18_RutValidator ==
    last.op \in RutChecks =>
        LET rut   == last.rut
            plain == PlainRut(rut)
            body  == SubSeq(plain, 1, Len(plain) - 1)
        IN  /\ Len(plain) < 8 => ~validate_rut(rut)
            /\ (Len(plain) >= 8 /\ IsAllDigits(body)) =>
                   {c \in CheckChars : validate_rut(body \o c)} = {ClaimedDv(body)}
            /\ validate_rut(rut) =>
                   \A c \in CheckChars \ {Upper(CharAt(rut, Len(rut)))} :
                       ~validate_rut(WithCheckChar(rut, c))
            /\ last.raised <=> (rut # "" /\ ~validate_rut(rut))

\* a RUT typed with dots, dash and a small k passes the constraint and is stored
C18_Witness ==
    /\ last.op = "check_rut_usuario"
    /\ last.rut = "20.000.003-k"
    /\ validate_rut(last.rut)
    /\ ~last.raised
    /\ docs[1].rut_usuario = "20.000.003-k"

\* every character of s is an asterisk
AllStars(s) == \A i \in 1..Len(s) : CharAt(s, i) = "*"

\* C19: _mask_key raises nothing; of a key of at most 10 characters it
\* returns as many asterisks as the key has characters, of a longer key the
\* first 6 characters, exactly 6 asterisks and the last 4 characters.
C19_MaskKey ==
    last.op = "get_simpleapi_config" =>
        LET key == last.value.api_key
            m   == mask_key(PyStr(key))
        IN  /\ ~last.raised
            /\ InLog("api_key=" \o m \o " timeout=")
            /\ IF Len(key) <= 10
               THEN Len(m) = Len(key) /\ AllStars(m)
               ELSE /\ Len(m) = 16
                    /\ SubSeq(m, 1, 6) = SubSeq(key, 1, 6)
                    /\ SubSeq(m, 7, 12) = "******"
                    /\ SubSeq(m, 13, 16) = SubSeq(key, Len(key) - 3, Len(key))

\* the key of the specification is masked as 4648-N******9354
C19_Witness ==
    /\ last.op = "get_simpleapi_config"
    /\ last.value.api_key = "4648-N330-6392-2590-9354"
    /\ InLog("api_key=4648-N******9354 timeout=")

\* the message of the first precondition that fails, in the order of the
\* claim: the description, the amount, the address
ClaimedFirstFailure(d) ==
    IF d.descripcion_servicio = "" THEN "Debe agregar una descripcion del servicio"
    ELSE IF ~(d.valor_bruto > 0) THEN "El valor bruto debe ser mayor a cero"
    ELSE "Debe indicar un correo destinatario valido (ej: correo@dominio.cl)"

\* some request of the invocation is about record id
AnySentFor(id) == \E i \in 1..Len(http) : http[i].doc = id

\* C20: an issue of a record that fails a precondition sends no request for
\* it, has still added 1 to intentos and posted the starting notification
\* first, and leaves the record in error with the message of the first
\* precondition that fails in the order description, valor_bruto, email.
C20_PreconditionOrder ==
    \A id \in Ids :
        (Issued(id) /\ ~PreconditionsPass(last.pre[id]))
        => /\ ~AnySentFor(id)
           /\ docs[id].intentos = last.pre[id].intentos + 1
           /\ Len(PostsOf(id)) = 2
           /\ PostsOf(id)[1].body = Starting
           /\ docs[id].state = "error"
           /\ docs[id].error_message = PyStr(ClaimedFirstFailure(last.pre[id]))
           /\ PostsOf(id)[2].body =
                  "Error emitiendo boleta: " \o ClaimedFirstFailure(last.pre[id])

\* a record without description, amount and address fails on the description
C20_Witness ==
    \E id \in Ids :
        /\ Issued(id)
        /\ last.pre[id].descripcion_servicio = ""
        /\ last.pre[id].valor_bruto = 0
        /\ last.pre[id].email_destinatario = ""
        /\ docs[id].intentos = last.pre[id].intentos + 1
        /\ docs[id].error_message = PyStr("Debe agregar una descripcion del servicio")
        /\ http = <<>>

ClaimedErrorOrder == <<"error", "mensaje", "message", "descripcion", "detalle">>
ErrorCandidates(o) ==
    {i \in 1..Len(ClaimedErrorOrder) : Truthy(Get(o, ClaimedErrorOrder[i]))}

\* the extracted message, or the default one when the answer holds none
ClaimedError(o) ==
    IF ErrorCandidates(o) = {} THEN PyStr("Error desconocido")
    ELSE Get(o, ClaimedErrorOrder[CHOOSE i \in ErrorCandidates(o) :
                                     \A j \in ErrorCandidates(o) : i <= j])

\* the only folio the answer holds is under numero_boleta or numeroBoleta
OnlyBoletaKeys(o) ==
    /\ ~SaidSuccessful(o)
    /\ Truthy(Get(o, "numero_boleta")) \/ Truthy(Get(o, "numeroBoleta"))

\* C21: an issue answered HTTP 200 with an object that holds a folio under
\* numero_boleta or numeroBoleta only (no truthy success, numeroDocumento,
\* numero or folio) is classified as an error: the record ends in error with
\* the extracted message or the default one, its numero_boleta is as before
\* the call and no mail is requested, although the folio extractor finds a
\* folio in the answer.
C21_ClassifierMissesBoletaKeys ==
    \A id \in Ids :
        (/\ Issued(id)
         /\ PreconditionsPass(last.pre[id])
         /\ Is200Object(last.env[id].issue)
         /\ OnlyBoletaKeys(last.env[id].issue.obj))
        => /\ docs[id].state = "error"
           /\ docs[id].error_message = ClaimedError(last.env[id].issue.obj)
           /\ docs[id].numero_boleta = last.pre[id].numero_boleta
           /\ ~SentTo("mail", id)
           /\ Truthy(ExtractFolio(last.env[id].issue.obj))
           /\ NonEmptyCandidates(last.env[id].issue.obj) # {}

\* a draft is answered {"numeroBoleta": 44}: it ends in error with the default
\* message and without a folio
C21_Witness ==
    \E id \in Ids :
        /\ Issued(id)
        /\ Is200Object(last.env[id].issue)
        /\ last.env[id].issue.obj = Obj([numeroBoleta |-> PyInt(44)])
        /\ last.pre[id].state = "draft"
        /\ docs[id].state = "error"
        /\ docs[id].error_message = PyStr("Error desconocido")
        /\ docs[id].numero_boleta = ""

====
